---- MODULE Spec2Model ----
(***************************************************************************)
(* Model of the meetup bot (src/Main.py): the date/time parser and         *)
(* formatter, the chat -> Event store `events`, and the four command       *)
(* handlers event_cmd, exclude_cmd, add_cmd and done_cmd.                  *)
(*                                                                         *)
(* A handler is a coroutine.  It runs from its start to its                *)
(* `await update.message.reply_text(...)` in one step (EventCmd,           *)
(* ExcludeCmd, AddCmd, DoneCmd) and from there to its end in another       *)
(* (Resume); `running` holds the handlers that are suspended in between.   *)
(* Only done_cmd has code after its reply, the deletion of the Event.      *)
(* reply_text is taken to return normally.  When the next handler may      *)
(* start is the dispatcher's decision, CanDispatch.                        *)
(*                                                                         *)
(* Spec is the bot: the store, the clock and the handlers.  ParserSpec is  *)
(* the parser alone: parse_date_time and format_datetime called on texts   *)
(* written from day, month, hour and minute numbers, at a clock that moves *)
(* between the calls.                                                      *)
(*                                                                         *)
(* Texts are sequences of tokens.  A token is one character ("0".."9",     *)
(* " ", ":", ",", "|") or one run of letters (a word).  Cyrillic words are *)
(* written transliterated, because the module is ASCII: "yanvarya" stands  *)
(* for the source's first MONTHS key, "DEKABRYA" for the last one in       *)
(* capitals, "vecherom" for a lowercase Cyrillic word that is no month,    *)
(* and "bogus" for a Latin word.                                           *)
(***************************************************************************)
EXTENDS Integers, Sequences, FiniteSets, TLC

VARIABLES
  events,     \* the dict `events`: chat_id -> Event
  clock,      \* what datetime.now() returns
  running,    \* the handlers that await their reply_text
  received,   \* the number of updates dispatched so far
  before,     \* history: `events` when the newest running handler started
  finalized,  \* history: the chat whose Event the handler that returned
              \* last deleted, 0 when it deleted none
  parse_arg,  \* the argument of the call of parse_date_time under study
  parsed,     \* what that call returned, and the clock value it read
  point       \* history: the datetime parse_arg was formatted from

\* The variables of the parser's calls: ParserSpec studies parse_date_time
\* and format_datetime on their own; Spec leaves these as they start.
parser_vars == <<parse_arg, parsed, point>>

vars ==
  <<events, clock, running, received, before, finalized, parse_arg, parsed,
    point>>

(***************************************************************************)
(* Bounds of the model.                                                    *)
(***************************************************************************)
NumUsers == 2
MaxTicks == 2
MaxUpdates == 4

\* Two chat ids: a handler reads and writes events[chat_id] only.
Chats == {1, 2}
Users == 1..NumUsers

(***************************************************************************)
(* The clock values of the model.                                          *)
(***************************************************************************)
MkClock(y, mo, d, h, mi, sec) ==
  [year |-> y, month |-> mo, day |-> d, hour |-> h, minute |-> mi,
   second |-> sec]

\* The moments at which the model reads datetime.now(), in order.
ClockPoints ==
  <<MkClock(2023, 12, 31, 23, 50, 0),
    MkClock(2023, 12, 31, 23, 59, 30),
    MkClock(2024, 1, 1, 0, 6, 0),
    MkClock(2024, 1, 1, 0, 15, 0),
    MkClock(2024, 1, 1, 0, 15, 30),
    MkClock(2024, 3, 1, 12, 0, 0)>>

(***************************************************************************)
(* Calendar arithmetic of datetime.                                        *)
(***************************************************************************)
\* The year the day count starts from: the year of the first clock value.
EpochYear == ClockPoints[1].year

IsLeap(y) == (y % 4 = 0 /\ y % 100 # 0) \/ y % 400 = 0

DaysInMonth(y, m) ==
  IF m = 2 THEN (IF IsLeap(y) THEN 29 ELSE 28)
  ELSE IF m \in {4, 6, 9, 11} THEN 30 ELSE 31

RECURSIVE DaysBeforeMonth(_, _)
DaysBeforeMonth(y, m) ==
  IF m = 1 THEN 0 ELSE DaysBeforeMonth(y, m - 1) + DaysInMonth(y, m - 1)

RECURSIVE DaysBeforeYear(_)
DaysBeforeYear(y) ==
  IF y <= EpochYear THEN 0
  ELSE DaysBeforeYear(y - 1) + (IF IsLeap(y - 1) THEN 366 ELSE 365)

\* datetime(year, month, day, hour, minute) raises ValueError exactly when
\* this is FALSE.
ValidDateTime(y, mo, d, h, mi) ==
  /\ mo \in 1..12
  /\ d >= 1 /\ d <= DaysInMonth(y, mo)
  /\ h \in 0..23
  /\ mi \in 0..59

MkDateTime(y, mo, d, h, mi) ==
  [year |-> y, month |-> mo, day |-> d, hour |-> h, minute |-> mi]

\* Minutes from the start of EpochYear: the order of datetime values.
MinuteOf(dt) ==
  (((DaysBeforeYear(dt.year) + DaysBeforeMonth(dt.year, dt.month)
     + (dt.day - 1)) * 24 + dt.hour) * 60) + dt.minute

\* The clock also carries seconds; a parsed datetime has second = 0.
SecondOf(now) == MinuteOf(now) * 60 + now.second

GraceMinutes == 10

\* Mutant of PastGrace: the comparison is <=, so a point exactly ten
\* minutes old counts as past.
PastGraceInclusive(dt, now) ==
  MinuteOf(dt) * 60 <= SecondOf(now) - GraceMinutes * 60

\* dt < datetime.now() - timedelta(minutes=10)
PastGrace(dt, now) == MinuteOf(dt) * 60 < SecondOf(now) - GraceMinutes * 60

(***************************************************************************)
(* Tokens and the MONTHS table.                                            *)
(***************************************************************************)
Digits == <<"0", "1", "2", "3", "4", "5", "6", "7", "8", "9">>

IsDigit(t) == \E i \in 1..10 : Digits[i] = t

DigitVal(t) == (CHOOSE i \in 1..10 : Digits[i] = t) - 1

MonthWords ==
  <<"yanvarya", "fevralya", "marta", "aprelya", "maya", "iyunya",
    "iyulya", "avgusta", "sentyabrya", "oktyabrya", "noyabrya", "dekabrya">>

InMONTHS(w) == \E i \in 1..12 : MonthWords[i] = w

MONTHS(w) == CHOOSE i \in 1..12 : MonthWords[i] = w

\* str.lower() on the words of the vocabulary.
LowerWord(t) ==
  CASE t = "Yanvarya" -> "yanvarya"
    [] t = "DEKABRYA" -> "dekabrya"
    [] t = "Bogus" -> "bogus"
    [] OTHER -> t

Lower(s) == [i \in 1..Len(s) |-> LowerWord(s[i])]

\* A word the class [а-яё]+ matches to its end.
IsCyrLowerWord(t) == InMONTHS(t) \/ t = "vecherom"

IsSpace(t) == t = " "

RECURSIVE StripLeft(_)
StripLeft(s) ==
  IF s # <<>> /\ IsSpace(Head(s)) THEN StripLeft(Tail(s)) ELSE s

RECURSIVE StripRight(_)
StripRight(s) ==
  IF s # <<>> /\ IsSpace(s[Len(s)])
  THEN StripRight(SubSeq(s, 1, Len(s) - 1)) ELSE s

Strip(s) == StripRight(StripLeft(s))

\* Length of the run of tokens satisfying the class, from position i.
RECURSIVE DigitRun(_, _)
DigitRun(s, i) ==
  IF i <= Len(s) /\ IsDigit(s[i]) THEN 1 + DigitRun(s, i + 1) ELSE 0

RECURSIVE SpaceRun(_, _)
SpaceRun(s, i) ==
  IF i <= Len(s) /\ IsSpace(s[i]) THEN 1 + SpaceRun(s, i + 1) ELSE 0

\* int() of the n digits of s from position i.
RECURSIVE IntOf(_, _, _)
IntOf(s, i, n) ==
  IF n = 0 THEN 0 ELSE IntOf(s, i, n - 1) * 10 + DigitVal(s[i + n - 1])

NoMatch == [ok |-> FALSE]

\* re.match(r'(\d{1,2})\s+([а-яё]+)\s+(\d{1,2}):(\d{2})', s): anchored at
\* the start only, so anything may follow the two minute digits.
ReMatch(s) ==
  LET n1 == DigitRun(s, 1)
      w1 == SpaceRun(s, 1 + n1)
      p  == 1 + n1 + w1
      w2 == SpaceRun(s, p + 1)
      q  == p + 1 + w2
      n2 == DigitRun(s, q)
      c  == q + n2
  IN IF /\ n1 \in {1, 2}
        /\ w1 >= 1
        /\ p <= Len(s) /\ IsCyrLowerWord(s[p])
        /\ w2 >= 1
        /\ n2 \in {1, 2}
        /\ c <= Len(s) /\ s[c] = ":"
        /\ DigitRun(s, c + 1) >= 2
     THEN [ok |-> TRUE,
           day |-> IntOf(s, 1, n1),
           month_word |-> s[p],
           hour |-> IntOf(s, q, n2),
           minute |-> IntOf(s, c + 1, 2)]
     ELSE NoMatch

None == [none |-> TRUE]

\* Mutant of parse_date_time: when the date does not exist in the current
\* year the next year is tried.
parse_date_time_retry(date_str, now) ==
  LET match == ReMatch(Lower(Strip(date_str)))
  IN IF ~match.ok THEN None
     ELSE IF ~InMONTHS(match.month_word) THEN None
     ELSE LET month == MONTHS(match.month_word)
              year  == now.year
              Valid(y) == ValidDateTime(y, month, match.day, match.hour,
                                        match.minute)
              Make(y) == MkDateTime(y, month, match.day, match.hour,
                                    match.minute)
          IN IF Valid(year) /\ ~PastGrace(Make(year), now) THEN Make(year)
             ELSE IF Valid(year + 1) THEN Make(year + 1)
             ELSE None

\* parse_date_time(date_str) evaluated when datetime.now() is `now`; its two
\* reads of the clock, for the year and for the comparison, are one read.
parse_date_time(date_str, now) ==
  LET match == ReMatch(Lower(Strip(date_str)))
  IN IF ~match.ok THEN None
     ELSE IF ~InMONTHS(match.month_word) THEN None
     ELSE LET month == MONTHS(match.month_word)
              year  == now.year
          IN IF ~ValidDateTime(year, month, match.day, match.hour, match.minute)
             THEN None
             ELSE LET dt == MkDateTime(year, month, match.day, match.hour,
                                       match.minute)
                  IN IF PastGrace(dt, now)
                     THEN IF ValidDateTime(year + 1, month, match.day,
                                           match.hour, match.minute)
                          THEN MkDateTime(year + 1, month, match.day,
                                          match.hour, match.minute)
                          ELSE None
                     ELSE dt

\* str(n) for 0 <= n <= 99, and f"{n:02d}".
Str(n) == IF n < 10 THEN <<Digits[n + 1]>>
          ELSE <<Digits[(n \div 10) + 1], Digits[(n % 10) + 1]>>

Pad2(n) == <<Digits[(n \div 10) + 1], Digits[(n % 10) + 1]>>

format_datetime(dt) ==
  LET month_name == MonthWords[dt.month]
  IN Str(dt.day) \o <<" ", month_name, " ">> \o Pad2(dt.hour) \o <<":">>
     \o Pad2(dt.minute)

(***************************************************************************)
(* Helpers of the handlers.                                                *)
(***************************************************************************)
IsNone(dt) == dt = None

\* Index of the first " | " in s at or after i, 0 when there is none.
RECURSIVE FindSep(_, _)
FindSep(s, i) ==
  IF i + 2 > Len(s) THEN 0
  ELSE IF s[i] = " " /\ s[i + 1] = "|" /\ s[i + 2] = " " THEN i
  ELSE FindSep(s, i + 1)

RECURSIVE FindComma(_, _)
FindComma(s, i) ==
  IF i > Len(s) THEN 0 ELSE IF s[i] = "," THEN i ELSE FindComma(s, i + 1)

\* times_str.split(",")
RECURSIVE SplitComma(_)
SplitComma(s) ==
  LET k == FindComma(s, 1)
  IN IF k = 0 THEN <<s>>
     ELSE <<SubSeq(s, 1, k - 1)>> \o SplitComma(SubSeq(s, k + 1, Len(s)))

\* [t.strip() for t in times_str.split(",") if t.strip()]
RawOptions(times_str) ==
  LET pieces   == SplitComma(times_str)
      stripped == [i \in 1..Len(pieces) |-> Strip(pieces[i])]
      NonEmpty(t) == t # <<>>
  IN SelectSeq(stripped, NonEmpty)

\* sorted(S) for a set of datetimes.
RECURSIVE Sorted(_)
Sorted(S) ==
  IF S = {} THEN <<>>
  ELSE LET m == CHOOSE x \in S : \A y \in S : MinuteOf(x) <= MinuteOf(y)
       IN <<m>> \o Sorted(S \ {m})

FormatAll(dts) == [i \in 1..Len(dts) |-> format_datetime(dts[i])]

\* The union of event["exclusions"].values().
Excluded(event) ==
  UNION {event.exclusions[u] : u \in DOMAIN event.exclusions}

\* Mutant of Available: only one participant's exclusions are subtracted.
AvailableOfOne(event) ==
  IF DOMAIN event.exclusions = {} THEN event.options
  ELSE event.options
       \ event.exclusions[CHOOSE u \in DOMAIN event.exclusions : TRUE]

\* available = options.copy(); for excl_set in ...: available -= excl_set
Available(event) == event.options \ Excluded(event)

\* Mutant of SetDefaultAdd: setdefault(user_id, set()) without the .add(dt).
SetDefaultOnly(exclusions, user_id, dt) ==
  IF user_id \in DOMAIN exclusions THEN exclusions
  ELSE [u \in DOMAIN exclusions \cup {user_id} |->
          IF u = user_id THEN {} ELSE exclusions[u]]

\* Mutant of SetDefaultAdd: excluding an excluded point takes it back.
SetDefaultToggle(exclusions, user_id, dt) ==
  IF user_id \in DOMAIN exclusions
  THEN [exclusions EXCEPT ![user_id] =
          IF dt \in @ THEN @ \ {dt} ELSE @ \cup {dt}]
  ELSE [u \in DOMAIN exclusions \cup {user_id} |->
          IF u = user_id THEN {dt} ELSE exclusions[u]]

\* event["exclusions"].setdefault(user_id, set()).add(dt)
SetDefaultAdd(exclusions, user_id, dt) ==
  IF user_id \in DOMAIN exclusions
  THEN [exclusions EXCEPT ![user_id] = @ \cup {dt}]
  ELSE [u \in DOMAIN exclusions \cup {user_id} |->
          IF u = user_id THEN {dt} ELSE exclusions[u]]

\* Mutant of SetItem: events.setdefault(chat_id, value), which keeps the
\* Event a chat already has.
SetItemIfAbsent(evs, chat_id, value) ==
  IF chat_id \in DOMAIN evs THEN evs
  ELSE [c \in DOMAIN evs \cup {chat_id} |->
          IF c = chat_id THEN value ELSE evs[c]]

\* events[chat_id] = value
SetItem(evs, chat_id, value) ==
  [c \in DOMAIN evs \cup {chat_id} |-> IF c = chat_id THEN value ELSE evs[c]]

\* Mutant of DelItem: events.clear()
DelAll(evs, chat_id) == [c \in {} |-> {}]

\* del events[chat_id], for a key that is present
DelItem(evs, chat_id) == [c \in DOMAIN evs \ {chat_id} |-> evs[c]]

NoExclusions == [u \in {} |-> {}]

NoEvents == [c \in {} |-> {}]

\* parse_date_time has not been called on parse_arg yet.
NotCalled == [called |-> FALSE]

\* Mutant of Offered: the membership test is missing.
OfferedAnything(dt, event) == TRUE

\* if dt in event["options"]
Offered(dt, event) == dt \in event.options

\* Mutant of Excluding: the participant's set is created before the
\* membership test.
ExcludingEagerly(event, user_id, dt) ==
  IF Offered(dt, event)
  THEN [event EXCEPT !.exclusions = SetDefaultAdd(@, user_id, dt)]
  ELSE [event EXCEPT !.exclusions =
          [u \in DOMAIN @ \cup {user_id} |->
             IF u \in DOMAIN @ THEN @[u] ELSE {}]]

\* Lines 116-127 of exclude_cmd on the Event: the exclusion is recorded
\* only for an offered option.
Excluding(event, user_id, dt) ==
  IF Offered(dt, event)
  THEN [event EXCEPT !.exclusions = SetDefaultAdd(@, user_id, dt)]
  ELSE event

\* Mutant of Adding: an added point starts afresh, with its exclusions
\* dropped.
AddingAfresh(event, dt) ==
  [event EXCEPT !.options = @ \cup {dt},
                !.exclusions = [u \in DOMAIN @ |-> @[u] \ {dt}]]

\* event["options"].add(dt)
Adding(event, dt) == [event EXCEPT !.options = @ \cup {dt}]

\* What a handler holds while it awaits reply_text: its arguments, the
\* clock value it read, the reply it sends and the locals it computed.
Reply(cmd, chat, user, args, now, kind, name, result, invalid, raw) ==
  [cmd |-> cmd, chat |-> chat, user |-> user, args |-> args, now |-> now,
   reply |-> kind, name |-> name, result |-> result,
   shown |-> FormatAll(result), invalid |-> invalid, raw |-> raw]

(***************************************************************************)
(* Inputs: the argument texts of the commands.                            *)
(***************************************************************************)
LastClock == IF MaxTicks + 1 < Len(ClockPoints) THEN MaxTicks + 1
             ELSE Len(ClockPoints)

ClockIndex(now) == CHOOSE i \in 1..Len(ClockPoints) : ClockPoints[i] = now

TextA == <<"3", "1", " ", "dekabrya", " ", "2", "3", ":", "5", "5">>

TextAShout ==
  <<"3", "1", " ", "DEKABRYA", " ", "2", "3", ":", "5", "5", " ", "vecherom">>

TextB == <<"1", " ", "yanvarya", " ", "0", ":", "0", "5">>

TextBPadded == <<"1", " ", "yanvarya", " ", "0", "0", ":", "0", "5">>

TextBogus == <<"bogus">>

TextFeb31 == <<"3", "1", " ", "fevralya", " ", "1", "0", ":", "0", "0">>

\* The option lists of the proposals; <<>> is an empty piece, as in "a,,b".
PieceLists ==
  {<<TextA>>, <<TextB, TextA>>, <<TextA, TextAShout>>,
   <<TextBogus, TextFeb31>>, <<TextFeb31, TextB, TextBogus>>,
   <<TextA, <<>>, TextBogus>>, <<<<>>, <<>>>>}

\* ",".join(pieces), with a space before every piece that is not empty.
RECURSIVE JoinComma(_)
JoinComma(pieces) ==
  IF Len(pieces) = 1 THEN pieces[1]
  ELSE pieces[1] \o <<",">>
       \o (IF pieces[2] = <<>> THEN <<>> ELSE <<" ">>)
       \o JoinComma(Tail(pieces))

Names == {<<"Sync">>, <<"Party">>}

\* " ".join(context.args) of /event: a name, " | ", the option list; or
\* arguments without the separator; or no arguments.
EventArgs ==
  {name \o <<" ", "|", " ">> \o JoinComma(ps) :
     name \in Names, ps \in PieceLists}
  \cup {<<>>, <<"Sync">>}

\* " ".join(context.args) of /exclude and /add.
TimeArgs ==
  {<<>>, TextA, TextAShout, TextB, TextBPadded, TextBogus, TextFeb31}

\* Every text the handlers hand to parse_date_time in this model.
KnownTexts ==
  TimeArgs \cup UNION {{Strip(ps[i]) : i \in 1..Len(ps)} : ps \in PieceLists}

\* parse_date_time over the texts and the clock values of the model,
\* evaluated once.
ParseTable ==
  [t \in KnownTexts, i \in 1..Len(ClockPoints) |->
     parse_date_time(t, ClockPoints[i])]

\* The handlers' calls of parse_date_time.
ParseMemo(date_str, now) ==
  IF date_str \in KnownTexts
  THEN ParseTable[date_str, ClockIndex(now)]
  ELSE parse_date_time(date_str, now)

\* The loop of event_cmd: the set of parsed datetimes ...
ValidDatetimes(raw_options, now) ==
  {ParseMemo(raw_options[i], now) :
     i \in {j \in 1..Len(raw_options) :
              ~IsNone(ParseMemo(raw_options[j], now))}}

\* Mutant of InvalidExamples: the list is overwritten, not appended to.
InvalidExamplesLast(raw_options, now) ==
  LET Fails(raw) == IsNone(ParseMemo(raw, now))
      all == SelectSeq(raw_options, Fails)
  IN IF all = <<>> THEN <<>> ELSE <<all[Len(all)]>>

\* ... and the list of the raw strings that did not parse.
InvalidExamples(raw_options, now) ==
  LET Fails(raw) == IsNone(ParseMemo(raw, now))
  IN SelectSeq(raw_options, Fails)

(***************************************************************************)
(* The dispatcher.  main() builds the Application without                  *)
(* concurrent_updates and registers the handlers as blocking ones, so an   *)
(* update is taken from the queue only when the handler of the previous    *)
(* one has returned.                                                       *)
(***************************************************************************)
\* Mutant of CanDispatch: a second update is dispatched while a handler
\* awaits its reply, as under concurrent_updates(True).
CanOverlap == Len(running) < 2

CanDispatch == running = <<>>

\* Mutant of Dispatch: process_update is started as a task of its own, so
\* an update is dispatched while the handler of the previous one awaits.
DispatchOverlapping ==
  Len(running) < 2 /\ received < MaxUpdates /\ received' = received + 1

\* An update is taken from the queue and its handler is started.
Dispatch == CanDispatch /\ received < MaxUpdates /\ received' = received + 1

Init ==
  /\ events = NoEvents
  /\ clock = ClockPoints[1]
  /\ running = <<>>
  /\ received = 0
  /\ before = NoEvents
  /\ finalized = 0
  /\ parse_arg = <<>>
  /\ parsed = NotCalled
  /\ point = None

\* Mutant of event_cmd: the `if not valid_datetimes` check is missing, so
\* the Event is stored whatever was parsed.
event_cmd_unchecked(evs, chat_id, input_str, now) ==
  LET sep == FindSep(input_str, 1)
  IN IF input_str = <<>> \/ sep = 0
     THEN [events |-> evs,
           reply |-> Reply("event", chat_id, 0, input_str, now, "EventUsage",
                           <<>>, <<>>, <<>>, <<>>)]
     ELSE LET name == SubSeq(input_str, 1, sep - 1)
              times_str == SubSeq(input_str, sep + 3, Len(input_str))
              raw_options == RawOptions(times_str)
              valid_datetimes == ValidDatetimes(raw_options, now)
              invalid_examples == InvalidExamples(raw_options, now)
          IN [events |-> SetItem(evs, chat_id,
                           [name |-> name, options |-> valid_datetimes,
                            exclusions |-> NoExclusions]),
              reply |-> Reply("event", chat_id, 0, input_str, now,
                              IF valid_datetimes = {} THEN "NoValidDates"
                              ELSE "Created",
                              name, Sorted(valid_datetimes),
                              invalid_examples, <<>>)]

\* event_cmd up to its reply: the store it leaves and the reply it awaits.
event_cmd(evs, chat_id, input_str, now) ==
  LET sep == FindSep(input_str, 1)
  IN IF input_str = <<>> \/ sep = 0
     THEN [events |-> evs,
           reply |-> Reply("event", chat_id, 0, input_str, now, "EventUsage",
                           <<>>, <<>>, <<>>, <<>>)]
     ELSE LET name == SubSeq(input_str, 1, sep - 1)
              times_str == SubSeq(input_str, sep + 3, Len(input_str))
              raw_options == RawOptions(times_str)
              valid_datetimes == ValidDatetimes(raw_options, now)
              invalid_examples == InvalidExamples(raw_options, now)
          IN IF valid_datetimes = {}
             THEN [events |-> evs,
                   reply |-> Reply("event", chat_id, 0, input_str, now,
                                   "NoValidDates", <<>>, <<>>, <<>>, <<>>)]
             ELSE [events |-> SetItem(evs, chat_id,
                                [name |-> name, options |-> valid_datetimes,
                                 exclusions |-> NoExclusions]),
                   reply |-> Reply("event", chat_id, 0, input_str, now,
                                   "Created", name, Sorted(valid_datetimes),
                                   invalid_examples, <<>>)]

\* Mutant of exclude_cmd: the text is parsed before the chat is looked up.
exclude_cmd_parse_first(evs, chat_id, user_id, raw_time, now) ==
  IF raw_time = <<>>
  THEN [events |-> evs,
        reply |-> Reply("exclude", chat_id, user_id, raw_time, now,
                        "ExcludeUsage", <<>>, <<>>, <<>>, <<>>)]
  ELSE IF IsNone(ParseMemo(raw_time, now))
  THEN [events |-> evs,
        reply |-> Reply("exclude", chat_id, user_id, raw_time, now,
                        "Unparsable", <<>>, <<>>, <<>>, <<>>)]
  ELSE IF chat_id \notin DOMAIN evs
  THEN [events |-> evs,
        reply |-> Reply("exclude", chat_id, user_id, raw_time, now,
                        "NoActiveEvent", <<>>, <<>>, <<>>, <<>>)]
  ELSE LET dt == ParseMemo(raw_time, now)
       IN [events |-> [evs EXCEPT ![chat_id] = Excluding(@, user_id, dt)],
           reply |-> IF Offered(dt, evs[chat_id])
                     THEN Reply("exclude", chat_id, user_id, raw_time, now,
                                "Excluded", <<>>, <<dt>>, <<>>, <<>>)
                     ELSE Reply("exclude", chat_id, user_id, raw_time, now,
                                "NotOffered", <<>>, <<>>, <<>>, raw_time)]

\* exclude_cmd up to its reply.
exclude_cmd(evs, chat_id, user_id, raw_time, now) ==
  IF chat_id \notin DOMAIN evs
  THEN [events |-> evs,
        reply |-> Reply("exclude", chat_id, user_id, raw_time, now,
                        "NoActiveEvent", <<>>, <<>>, <<>>, <<>>)]
  ELSE IF raw_time = <<>>
  THEN [events |-> evs,
        reply |-> Reply("exclude", chat_id, user_id, raw_time, now,
                        "ExcludeUsage", <<>>, <<>>, <<>>, <<>>)]
  ELSE LET dt == ParseMemo(raw_time, now)
       IN IF IsNone(dt)
          THEN [events |-> evs,
                reply |-> Reply("exclude", chat_id, user_id, raw_time, now,
                                "Unparsable", <<>>, <<>>, <<>>, <<>>)]
          ELSE [events |-> [evs EXCEPT ![chat_id] =
                              Excluding(@, user_id, dt)],
                reply |-> IF Offered(dt, evs[chat_id])
                          THEN Reply("exclude", chat_id, user_id, raw_time,
                                     now, "Excluded", <<>>, <<dt>>, <<>>,
                                     <<>>)
                          ELSE Reply("exclude", chat_id, user_id, raw_time,
                                     now, "NotOffered", <<>>, <<>>, <<>>,
                                     raw_time)]

\* add_cmd up to its reply.
add_cmd(evs, chat_id, raw_time, now) ==
  IF chat_id \notin DOMAIN evs
  THEN [events |-> evs,
        reply |-> Reply("add", chat_id, 0, raw_time, now, "NoActiveEvent",
                        <<>>, <<>>, <<>>, <<>>)]
  ELSE IF raw_time = <<>>
  THEN [events |-> evs,
        reply |-> Reply("add", chat_id, 0, raw_time, now, "AddUsage", <<>>,
                        <<>>, <<>>, <<>>)]
  ELSE LET dt == ParseMemo(raw_time, now)
       IN IF IsNone(dt)
          THEN [events |-> evs,
                reply |-> Reply("add", chat_id, 0, raw_time, now,
                                "Unparsable", <<>>, <<>>, <<>>, <<>>)]
          ELSE [events |-> [evs EXCEPT ![chat_id] = Adding(@, dt)],
                reply |-> Reply("add", chat_id, 0, raw_time, now, "Added",
                                <<>>, <<dt>>, <<>>, <<>>)]

\* done_cmd up to its reply: the check, the computation of `available` and
\* the choice of the reply.  The deletion comes after the reply.
done_cmd(evs, chat_id, now) ==
  IF chat_id \notin DOMAIN evs
  THEN [events |-> evs,
        reply |-> Reply("done", chat_id, 0, <<>>, now, "NoActiveEvent", <<>>,
                        <<>>, <<>>, <<>>)]
  ELSE LET available == Available(evs[chat_id])
       IN IF available # {}
          THEN [events |-> evs,
                reply |-> Reply("done", chat_id, 0, <<>>, now, "Resolved",
                                <<>>, Sorted(available), <<>>, <<>>)]
          ELSE [events |-> evs,
                reply |-> Reply("done", chat_id, 0, <<>>, now,
                                "NoCommonTime", <<>>, <<>>, <<>>, <<>>)]

\* The handler started runs to its first await: r is the store it leaves
\* and the reply it awaits.
Begin(r) ==
  /\ events' = r.events
  /\ running' = Append(running, r.reply)
  /\ before' = events
  /\ UNCHANGED <<clock, finalized>>
  /\ UNCHANGED parser_vars

EventCmd(chat_id, input_str) ==
  /\ Dispatch
  /\ Begin(event_cmd(events, chat_id, input_str, clock))

ExcludeCmd(chat_id, user_id, raw_time) ==
  /\ Dispatch
  /\ Begin(exclude_cmd(events, chat_id, user_id, raw_time, clock))

AddCmd(chat_id, raw_time) ==
  /\ Dispatch
  /\ Begin(add_cmd(events, chat_id, raw_time, clock))

DoneCmd(chat_id) ==
  /\ Dispatch
  /\ Begin(done_cmd(events, chat_id, clock))

\* Mutant of Deletes: the deletion sits inside the `if available` branch.
DeletesWhenResolved(h) == h.cmd = "done" /\ h.reply = "Resolved"

\* Whether handler h has `del events[chat_id]` left to run after its reply:
\* done_cmd has, on both branches of `if available`.
Deletes(h) == h.cmd = "done" /\ h.reply \in {"Resolved", "NoCommonTime"}

\* The handler at position i resumes after `await reply_text(...)` and runs
\* to its end.  Only done_cmd has code after its reply: del events[chat_id],
\* which raises KeyError, and changes nothing, when the key is gone.
Resume(i) ==
  /\ i \in 1..Len(running)
  /\ IF Deletes(running[i]) /\ running[i].chat \in DOMAIN events
     THEN /\ events' = DelItem(events, running[i].chat)
          /\ finalized' = running[i].chat
     ELSE /\ UNCHANGED events
          /\ finalized' = 0
  /\ running' = [j \in 1..(Len(running) - 1) |->
                   IF j < i THEN running[j] ELSE running[j + 1]]
  /\ before' = NoEvents
  /\ UNCHANGED <<clock, received>>
  /\ UNCHANGED parser_vars

\* Time passes.  The clock is advanced between handlers: no handler reads it
\* after its reply, so a tick during an await commutes with the Resume that
\* follows it.
Tick ==
  /\ running = <<>>
  /\ \E j \in 1..LastClock :
       /\ j > ClockIndex(clock)
       /\ clock' = ClockPoints[j]
  /\ UNCHANGED <<events, running, received, before, finalized>>
  /\ UNCHANGED parser_vars

Next ==
  \/ \E c \in Chats, a \in EventArgs : EventCmd(c, a)
  \/ \E c \in Chats, u \in Users, a \in TimeArgs : ExcludeCmd(c, u, a)
  \/ \E c \in Chats, a \in TimeArgs : AddCmd(c, a)
  \/ \E c \in Chats : DoneCmd(c)
  \/ \E i \in 1..Len(running) : Resume(i)
  \/ Tick

Spec == Init /\ [][Next]_vars

(***************************************************************************)
(* The parser on its own: parse_date_time is called on a text at some      *)
(* clock value, its result is formatted by format_datetime, and the        *)
(* formatted text is parsed again at the same or a later clock value.      *)
(***************************************************************************)
\* The clock values at which the parser is called.
ParserClocks ==
  {ClockPoints[i] : i \in 1..Len(ClockPoints)}
  \cup {MkClock(2024, 2, 29, 10, 5, 0)}

\* The day, month, hour and minute numbers written in the texts.
ParserFields ==
  [day : {0, 1, 29, 31, 32}, month : {1, 2, 4, 12}, hour : {0, 10, 23, 24},
   minute : {5, 55, 60}]

\* A text of the shape "<day> <month word> <hour>:<minute>", the day and
\* the hour written with or without a leading zero.
FieldText(f, pad_day, pad_hour) ==
  (IF pad_day THEN Pad2(f.day) ELSE Str(f.day))
  \o <<" ", MonthWords[f.month], " ">>
  \o (IF pad_hour THEN Pad2(f.hour) ELSE Str(f.hour))
  \o <<":">> \o Pad2(f.minute)

ParserTexts ==
  {FieldText(f, pd, ph) : f \in ParserFields, pd \in BOOLEAN, ph \in BOOLEAN}
  \cup KnownTexts

ParserInit ==
  /\ events = NoEvents
  /\ running = <<>>
  /\ received = 0
  /\ before = NoEvents
  /\ finalized = 0
  /\ clock \in ParserClocks
  /\ parse_arg \in ParserTexts
  /\ parsed = NotCalled
  /\ point = None

\* parse_date_time(date_str) with date_str = parse_arg
ParseCall ==
  /\ parsed = NotCalled
  /\ parsed' = [called |-> TRUE, now |-> clock,
                dt |-> parse_date_time(parse_arg, clock)]
  /\ UNCHANGED <<events, clock, running, received, before, finalized,
                 parse_arg, point>>

\* format_datetime(dt) of a datetime that parse_date_time returned; the
\* text is what is parsed next.
FormatCall ==
  /\ parsed # NotCalled
  /\ ~IsNone(parsed.dt)
  /\ point = None
  /\ point' = parsed.dt
  /\ parse_arg' = format_datetime(parsed.dt)
  /\ parsed' = NotCalled
  /\ UNCHANGED <<events, clock, running, received, before, finalized>>

\* Time passes between the calls.
ParserTick ==
  /\ \E t \in ParserClocks :
       /\ SecondOf(t) > SecondOf(clock)
       /\ clock' = t
  /\ UNCHANGED <<events, running, received, before, finalized, parse_arg,
                 parsed, point>>

ParserNext == ParseCall \/ FormatCall \/ ParserTick

ParserSpec == ParserInit /\ [][ParserNext]_vars

(***************************************************************************)
(* Properties.                                                             *)
(***************************************************************************)
Handlers == {running[i] : i \in 1..Len(running)}

Elements(seq) == {seq[i] : i \in 1..Len(seq)}

\* Chronological order of two datetimes, field by field.
Earlier(a, b) ==
  \/ a.year < b.year
  \/ a.year = b.year /\ a.month < b.month
  \/ a.year = b.year /\ a.month = b.month /\ a.day < b.day
  \/ a.year = b.year /\ a.month = b.month /\ a.day = b.day
     /\ a.hour < b.hour
  \/ a.year = b.year /\ a.month = b.month /\ a.day = b.day
     /\ a.hour = b.hour /\ a.minute < b.minute

\* The options of an Event that no participant has excluded.
NobodyExcluded(event) ==
  {p \in event.options :
     \A u \in DOMAIN event.exclusions : p \notin event.exclusions[u]}

\* C1: a finalize that finds an Event returns exactly the options minus the
\* union of all participants' exclusion sets as they stand when it is
\* invoked, each once and in ascending chronological order; when every
\* option is excluded by somebody the result is the empty list, sent as the
\* ordinary "no common time" reply.
C1_FinalizeResolves ==
  \A h \in Handlers :
    (h.cmd = "done" /\ h.chat \in DOMAIN before) =>
      LET expect == NobodyExcluded(before[h.chat])
      IN /\ h.reply = (IF expect = {} THEN "NoCommonTime" ELSE "Resolved")
         /\ Elements(h.result) = expect
         /\ Len(h.result) = Cardinality(expect)
         /\ \A k \in 1..(Len(h.result) - 1) :
              Earlier(h.result[k], h.result[k + 1])
         /\ h.shown = [k \in 1..Len(h.result) |->
                         format_datetime(h.result[k])]

\* C1 witness: a finalize of an Event in which two participants excluded
\* different options that together cover every option.
C1_Witness ==
  \E h \in Handlers :
    /\ h.cmd = "done" /\ h.reply = "NoCommonTime"
    /\ h.chat \in DOMAIN before
    /\ \E u, v \in DOMAIN before[h.chat].exclusions :
         before[h.chat].exclusions[u] # before[h.chat].exclusions[v]

\* C2: in every reachable state every excluded point of every participant
\* of every Event is one of that Event's options.
C2_ExclusionsWithinOptions ==
  \A c \in DOMAIN events :
    \A u \in DOMAIN events[c].exclusions :
      events[c].exclusions[u] \subseteq events[c].options

\* C2 witness: an exclude of a text that parses but is not offered was
\* answered while the same participant has a recorded exclusion.
C2_Witness ==
  \E h \in Handlers :
    /\ h.cmd = "exclude" /\ h.reply = "NotOffered"
    /\ h.user \in DOMAIN events[h.chat].exclusions
    /\ events[h.chat].exclusions[h.user] # {}

FailureReplies ==
  {"EventUsage", "NoValidDates", "NoActiveEvent", "ExcludeUsage", "AddUsage",
   "Unparsable", "NotOffered"}

\* C4: an operation that ends in a failure reply leaves the whole
\* chat -> Event mapping as it was: no Event created, overwritten or
\* deleted, no option and no exclusion entry added.
C4_FailureChangesNothing ==
  \A h \in Handlers : h.reply \in FailureReplies => events = before

\* C4 witness: an exclude of a point that is not offered, by a participant
\* without an exclusion entry, was rejected.
C4_Witness ==
  \E h \in Handlers :
    /\ h.cmd = "exclude" /\ h.reply = "NotOffered"
    /\ h.user \notin DOMAIN events[h.chat].exclusions
    /\ events[h.chat].exclusions # NoExclusions

ArgName(args) == SubSeq(args, 1, FindSep(args, 1) - 1)

ArgPieces(args) ==
  LET pieces == SplitComma(SubSeq(args, FindSep(args, 1) + 3, Len(args)))
  IN [i \in 1..Len(pieces) |-> Strip(pieces[i])]

Parsed(pieces, now) ==
  {ParseMemo(pieces[i], now) : i \in 1..Len(pieces)} \ {None}

Unparsed(pieces, now) ==
  LET Fails(piece) == ParseMemo(piece, now) = None
  IN SelectSeq(pieces, Fails)

NotEmpty(piece) == piece # <<>>

\* The claim as stated: a proposal fails NoValidDates, changing nothing,
\* when no piece parses, and otherwise creates the Event with exactly the
\* parsed points and reports every piece that did not parse, in order.
ProposeReports(h, pieces) ==
  IF Parsed(pieces, h.now) = {}
  THEN h.reply = "NoValidDates" /\ events = before
  ELSE /\ h.reply = "Created"
       /\ h.chat \in DOMAIN events
       /\ events[h.chat].options = Parsed(pieces, h.now)
       /\ h.invalid = Unparsed(pieces, h.now)

\* C6, as stated: every piece between commas that fails to parse is in
\* rejectedInputs; an empty piece fails to parse.
C6_EveryPieceReported ==
  \A h \in Handlers :
    (h.cmd = "event" /\ FindSep(h.args, 1) # 0) =>
      ProposeReports(h, ArgPieces(h.args))

\* C6, amended: propose splits the option list on commas, trims each piece
\* and drops the pieces that are empty after trimming; if none of the rest
\* parses it fails NoValidDates and changes no Event; otherwise options is
\* the set of the parsed points and rejectedInputs is every non-empty piece
\* that failed to parse, trimmed, in the original order.
C6_NonEmptyPiecesReported ==
  \A h \in Handlers :
    (h.cmd = "event" /\ FindSep(h.args, 1) # 0) =>
      ProposeReports(h, SelectSeq(ArgPieces(h.args), NotEmpty))

\* C6 witness: a proposal with an empty piece, a valid piece and a piece
\* that does not parse was accepted.
C6_Witness ==
  \E h \in Handlers :
    /\ h.cmd = "event" /\ h.reply = "Created"
    /\ h.invalid # <<>>
    /\ \E i \in 1..Len(ArgPieces(h.args)) : ArgPieces(h.args)[i] = <<>>

\* C7: right after a successful propose the chat's Event has the given
\* name, exactly the newly parsed options and no exclusions, so that what
\* a finalize would resolve is the new options, whatever Event the chat had.
C7_ProposeReplaces ==
  \A h \in Handlers :
    (h.cmd = "event" /\ h.reply = "Created") =>
      /\ h.chat \in DOMAIN events
      /\ events[h.chat].name = ArgName(h.args)
      /\ events[h.chat].options =
           Parsed(SelectSeq(ArgPieces(h.args), NotEmpty), h.now)
      /\ DOMAIN events[h.chat].exclusions = {}
      /\ NobodyExcluded(events[h.chat]) = events[h.chat].options
      /\ Elements(h.result) = events[h.chat].options

\* C7 witness: a propose succeeded on a chat whose Event had another name,
\* an option the new proposal lacks and an exclusion.
C7_Witness ==
  \E h \in Handlers :
    /\ h.cmd = "event" /\ h.reply = "Created"
    /\ h.chat \in DOMAIN before
    /\ before[h.chat].name # events[h.chat].name
    /\ ~(before[h.chat].options \subseteq events[h.chat].options)
    /\ before[h.chat].exclusions # NoExclusions

\* C8: excludeOption answers NoActiveEvent when the chat has no Event,
\* whatever the text; otherwise UnparsableDate when the text does not parse;
\* otherwise OptionNotOffered, carrying the raw text, when the point is not
\* an option; otherwise it succeeds and the point is in the participant's
\* exclusions.  addOption answers NoActiveEvent, then UnparsableDate, and
\* otherwise succeeds.
C8_Precedence ==
  \A h \in Handlers :
    LET dt == ParseMemo(h.args, h.now)
    IN /\ h.cmd = "exclude" =>
            IF h.chat \notin DOMAIN before THEN h.reply = "NoActiveEvent"
            ELSE IF dt = None THEN h.reply \in {"Unparsable", "ExcludeUsage"}
            ELSE IF dt \notin before[h.chat].options
            THEN h.reply = "NotOffered" /\ h.raw = h.args
            ELSE /\ h.reply = "Excluded"
                 /\ h.result = <<dt>>
                 /\ h.user \in DOMAIN events[h.chat].exclusions
                 /\ dt \in events[h.chat].exclusions[h.user]
       /\ h.cmd = "add" =>
            IF h.chat \notin DOMAIN before THEN h.reply = "NoActiveEvent"
            ELSE IF dt = None THEN h.reply \in {"Unparsable", "AddUsage"}
            ELSE h.reply = "Added" /\ h.result = <<dt>>

\* C8 witness: an exclude with a text that does not parse, on a chat
\* without an Event, was answered NoActiveEvent.
C8_Witness ==
  \E h \in Handlers :
    /\ h.cmd = "exclude" /\ h.reply = "NoActiveEvent"
    /\ h.args # <<>>
    /\ ParseMemo(h.args, h.now) = None
    /\ before # NoEvents

\* C9: when a participant excludes a point that is already in their
\* exclusion set, the call succeeds and the whole store, every option and
\* every exclusion set, stays as it was.
C9_ExcludeIdempotent ==
  \A h \in Handlers :
    ( /\ h.cmd = "exclude"
      /\ h.chat \in DOMAIN before
      /\ h.user \in DOMAIN before[h.chat].exclusions
      /\ ParseMemo(h.args, h.now) \in
           before[h.chat].exclusions[h.user] )
    => /\ h.reply = "Excluded"
       /\ events = before
       /\ Cardinality(events[h.chat].exclusions[h.user]) =
            Cardinality(before[h.chat].exclusions[h.user])

\* C9 witness: a participant with two excluded points excluded one of them
\* again.
C9_Witness ==
  \E h \in Handlers :
    /\ h.cmd = "exclude" /\ h.reply = "Excluded"
    /\ h.chat \in DOMAIN before
    /\ h.user \in DOMAIN before[h.chat].exclusions
    /\ h.result[1] \in before[h.chat].exclusions[h.user]
    /\ Cardinality(before[h.chat].exclusions[h.user]) = 2

\* C10: a successful addOption inserts the point into the options of the
\* chat's Event and changes nothing else: not the name, not any exclusion
\* set, not another chat's Event; a point somebody excluded stays excluded
\* and out of what a finalize would resolve.
C10_AddTouchesOptionsOnly ==
  \A h \in Handlers :
    (h.cmd = "add" /\ h.reply = "Added") =>
      LET dt == ParseMemo(h.args, h.now)
      IN /\ DOMAIN events = DOMAIN before
         /\ \A c \in DOMAIN events \ {h.chat} : events[c] = before[c]
         /\ events[h.chat].options = before[h.chat].options \cup {dt}
         /\ events[h.chat].name = before[h.chat].name
         /\ events[h.chat].exclusions = before[h.chat].exclusions
         /\ \A u \in DOMAIN before[h.chat].exclusions :
              dt \in before[h.chat].exclusions[u] =>
                dt \notin NobodyExcluded(events[h.chat])

\* C10 witness: a point that a participant had excluded was added again.
C10_Witness ==
  \E h \in Handlers :
    /\ h.cmd = "add" /\ h.reply = "Added"
    /\ \E u \in DOMAIN before[h.chat].exclusions :
         h.result[1] \in before[h.chat].exclusions[u]

\* C11: in every reachable state every chat that has an Event has a
\* non-empty options set: no Event is created from zero parsed dates and no
\* operation removes an option.
C11_OptionsNeverEmpty ==
  \A c \in DOMAIN events : events[c].options # {}

\* C11 witness: a proposal none of whose pieces parses was answered
\* NoValidDates on a chat that has an Event.
C11_Witness ==
  \E h \in Handlers :
    /\ h.cmd = "event" /\ h.reply = "NoValidDates"
    /\ h.chat \in DOMAIN events
    /\ Cardinality(events[h.chat].options) >= 1

\* C12: format is a left inverse of parse on parse's range: for every
\* datetime p that parse returned at some clock value, parsing format(p) at
\* the same or any later clock value returns p.
C12_FormatLeftInverse ==
  (point # None /\ parsed # NotCalled) => parsed.dt = point

\* The numbers a well-formed text is written from.
FieldsOf(text) ==
  {f \in ParserFields :
     \E pd \in BOOLEAN, ph \in BOOLEAN : text = FieldText(f, pd, ph)}

InYear(f, y) == MkDateTime(y, f.month, f.day, f.hour, f.minute)

\* The date and time exist in year y.
Constructible(f, y) ==
  /\ f.day >= 1
  /\ f.day <= DaysInMonth(y, f.month)
  /\ f.hour < 24
  /\ f.minute < 60

\* Seconds by which the point of the current year lies before the clock
\* value; negative for a point ahead of it.
Age(f, now) == SecondOf(now) - MinuteOf(InYear(f, now.year)) * 60

\* C13, as stated: for a well-formed text whose date is valid in the
\* current year, parse returns the point of the current year when it is not
\* earlier than ten minutes before the current moment, and the point of the
\* next year, with the same month, day, hour and minute, when it is more
\* than ten minutes in the past.
C13_NextYearWheneverPast ==
  \A f \in FieldsOf(parse_arg) :
    (parsed # NotCalled /\ Constructible(f, parsed.now.year)) =>
      parsed.dt =
        InYear(f, IF Age(f, parsed.now) <= GraceMinutes * 60
                  THEN parsed.now.year ELSE parsed.now.year + 1)

\* C13, amended: for a well-formed text whose date is valid in the current
\* year, parse returns the point of the current year when it is not earlier
\* than ten minutes before the current moment, exactly ten minutes
\* included; when it is more than ten minutes in the past and the same
\* month, day, hour and minute are a valid date in the next year, parse
\* returns that point of the next year.
C13_NextYearWhenPastAndValid ==
  \A f \in FieldsOf(parse_arg) :
    (parsed # NotCalled /\ Constructible(f, parsed.now.year)) =>
      IF Age(f, parsed.now) <= GraceMinutes * 60
      THEN parsed.dt = InYear(f, parsed.now.year)
      ELSE Constructible(f, parsed.now.year + 1) =>
             parsed.dt = InYear(f, parsed.now.year + 1)

\* C13 witness: a text whose point of the current year is more than ten
\* but less than eleven minutes old was parsed into the next year.
C13_Witness ==
  \E f \in FieldsOf(parse_arg) :
    /\ parsed # NotCalled
    /\ Constructible(f, parsed.now.year)
    /\ Age(f, parsed.now) > GraceMinutes * 60
    /\ Age(f, parsed.now) < (GraceMinutes + 1) * 60
    /\ parsed.dt = InYear(f, parsed.now.year + 1)

\* C14: in every reachable state every participant that is a key of an
\* Event's exclusions has a non-empty exclusion set: a participant appears
\* only once one of their excludes succeeded in the current Event, and a
\* rejected exclude creates no empty entry.
C14_NoEmptyExclusionEntry ==
  \A c \in DOMAIN events :
    \A u \in DOMAIN events[c].exclusions : events[c].exclusions[u] # {}

\* C14 witness: the first successful exclude of a participant created their
\* entry, next to the entry of another participant.
C14_Witness ==
  \E h \in Handlers :
    /\ h.cmd = "exclude" /\ h.reply = "Excluded"
    /\ h.user \notin DOMAIN before[h.chat].exclusions
    /\ before[h.chat].exclusions # NoExclusions
    /\ events[h.chat].exclusions[h.user] = {h.result[1]}

\* C15: parse returns NONE, with no further fallback, whenever the date
\* cannot be constructed: when the day, hour and minute are not a valid
\* date-time of the current year (a day outside the month, an hour of 24 or
\* more, a minute of 60 or more), even if they are one of the next year, as
\* 29 February is in the year before a leap year; and when the point of the
\* current year is valid and more than ten minutes past but does not exist
\* in the next year, as 29 February of a leap year.
C15_NoneWhenNotConstructible ==
  \A f \in FieldsOf(parse_arg) :
    parsed # NotCalled =>
      LET year == parsed.now.year
      IN /\ ( \/ f.day < 1
              \/ f.day > DaysInMonth(year, f.month)
              \/ f.hour >= 24
              \/ f.minute >= 60 ) => parsed.dt = None
         /\ ( /\ Constructible(f, year)
              /\ Age(f, parsed.now) > GraceMinutes * 60
              /\ ~Constructible(f, year + 1) ) => parsed.dt = None

\* C15 witness: 29 February of a leap year, more than ten minutes past,
\* was parsed into NONE.
C15_Witness ==
  \E f \in FieldsOf(parse_arg) :
    /\ parsed # NotCalled
    /\ f.day = 29 /\ f.month = 2
    /\ IsLeap(parsed.now.year)
    /\ Constructible(f, parsed.now.year)
    /\ Age(f, parsed.now) > GraceMinutes * 60
    /\ parsed.dt = None

\* C16: every offered option stays addressable by its displayed text for
\* the whole life of its Event: for a chat with an Event, an option p of it
\* and any participant, an exclude of the text format(p) issued at any later
\* clock value succeeds with excluded = p; it never fails OptionNotOffered
\* and never records another point.
C16_OptionsStayAddressable ==
  \A h \in Handlers :
    (h.cmd = "exclude" /\ h.chat \in DOMAIN before) =>
      \A p \in before[h.chat].options :
        h.args = format_datetime(p) =>
          /\ h.reply = "Excluded"
          /\ h.result = <<p>>
          /\ p \in events[h.chat].exclusions[h.user]

C18_DisplayTextsDistinct ==
  \A c \in DOMAIN events :
    \A p \in events[c].options, q \in events[c].options :
      format_datetime(p) = format_datetime(q) => p = q

\* The Event of chat c in the store evs, NONE when it has none.
EventOf(evs, c) == IF c \in DOMAIN evs THEN evs[c] ELSE None

\* C19: chat isolation.  A propose, add, exclude or finalize addressed to a
\* chat, whether it succeeds or fails, leaves the Event of every other chat,
\* or its absence, as it was: the Event of chat c changes only in a step in
\* which a handler of an update of chat c starts or returns.
C19_ChatIsolation ==
  [][\A c \in Chats :
       EventOf(events, c) # EventOf(events', c) =>
         \/ /\ Len(running') = Len(running) + 1
            /\ running'[Len(running')].chat = c
         \/ \E i \in 1..Len(running) :
              /\ running[i].chat = c
              /\ Len(running') = Len(running) - 1
              /\ \A j \in 1..Len(running') :
                   running'[j] = running[IF j < i THEN j ELSE j + 1]]_vars

\* C19 witness: a propose replaced the Event of one chat while the other
\* chat has an Event with an exclusion, which is as it was.
C19_Witness ==
  \E h \in Handlers :
    /\ h.cmd = "event" /\ h.reply = "Created"
    /\ h.chat \in DOMAIN before
    /\ \E c \in DOMAIN events \ {h.chat} :
         /\ events[c].exclusions # NoExclusions
         /\ c \in DOMAIN before
         /\ events[c] = before[c]

====
